---- MODULE Spec2Model ----
(***************************************************************************)
(* Model of examples/verifier_bench/src/bin/main.rs: the demonstration     *)
(* circuit DummyDemo, the bounded random point generator random_points,    *)
(* the synthetic parameter builder dummy_vk / dummy_params and the         *)
(* byte-blob decode run of main.                                           *)
(*                                                                         *)
(* Each of the four pieces is an operation of its own; it is explored      *)
(* under a specification of its own (SpecSynth, SpecPoints, SpecParams,    *)
(* SpecDecode) in which the variables of the other pieces stay idle.       *)
(***************************************************************************)
EXTENDS Integers, Sequences, FiniteSets, TLC

VARIABLES
    \* ---- DummyDemo::synthesize ----
    public,     \* DummyDemo.public / dummy_params' argument
    private,    \* DummyDemo.private / dummy_params' argument
    s_pc,       \* position inside synthesize
    x_val,      \* Option<Fr>: <<v>> is Some(v), <<>> is None
    x,          \* the Variable held in x
    pubs,       \* number of public allocations made so far
    iter,       \* loop index of `for _ in 0..private + public - 1`
    cs,         \* the constraint system driven by synthesize
    s_result,   \* "none", "Ok", "Err", "panic"
    \* ---- random_points ----
    rng,        \* the randomness source: its position in the random stream
    group,      \* the type parameter C of random_points: "G1" or "G2"
    count,      \* the argument count of random_points
    r_pc,       \* position inside random_points
    pool,       \* the Vec collected from the DISTINT_POINTS draws
    pos,        \* how many pool entries the current pass of cycle() has yielded
    out,        \* the Vec collected from take(count)
    \* ---- dummy_vk / dummy_params ----
    p_pc,       \* position inside dummy_params
    p_idx,      \* index of the next struct field to be evaluated
    p_count,    \* the local `count` of dummy_params
    hlen,       \* the local `hlen` of dummy_params
    vk,         \* the VerifyingKey under construction (field name -> value)
    params,     \* the Parameters under construction (field name -> value)
    p_calls,    \* the point-generating calls made so far, in order
    \* ---- main ----
    m_pc,       \* position inside main
    file,       \* data.bin: whether it exists, its length, and what the library
                \* makes of each region of it
    byteblob,   \* Some(the Vec<u8> read from the file) once read, else None
    de_prf,     \* Some(the decoded Proof) once decoded, else None
    fp_byteblob,\* Some(the range of the copied field-element bytes), else None
    c21,        \* Some(the decoded field element) once decoded, else None
    m_outcome,  \* "running", "exit" or "panic"
    m_stdout    \* what main has printed

argVars == <<public, private>>
synthVars == <<s_pc, x_val, x, pubs, iter, cs, s_result>>
pointVars == <<group, count, r_pc, pool, pos, out>>
paramVars == <<p_pc, p_idx, p_count, hlen, vk, params, p_calls>>

decodeVars == <<m_pc, file, byteblob, de_prf, fp_byteblob, c21, m_outcome, m_stdout>>

vars == <<argVars, synthVars, rng, pointVars, paramVars, decodeVars>>

\* ------------------------------------------------------------------------
\* Bounds of the model
\* ------------------------------------------------------------------------
MaxPublic == 4
MaxPrivate == 4
MaxCount == 205
MaxSeed == 1
MaxFileLen == 243
\* The scalar field is modelled by the ring of integers modulo FrModulus.
FrModulus == 101

\* ------------------------------------------------------------------------
\* Field and Option helpers
\* ------------------------------------------------------------------------
Some(v) == <<v>>
None == <<>>
IsSome(o) == Len(o) = 1
Unwrap(o) == o[1]

FrMul(a, b) == (a * b) % FrModulus
FrAdd(a, b) == (a + b) % FrModulus
FrSquare(e) == FrMul(e, e)
\* E::Fr::from_str("2")
FrFromStr2 == Some(2 % FrModulus)

\* x_val.map(|mut e| { e.square(); e })
MapSquare(o) == IF IsSome(o) THEN Some(FrSquare(Unwrap(o))) ELSE None

\* ------------------------------------------------------------------------
\* The constraint system interface used by synthesize
\* ------------------------------------------------------------------------
InputVar(i) == [kind |-> "Input", idx |-> i]
AuxVar(i) == [kind |-> "Aux", idx |-> i]
\* CS::one(): the constant-one input, present before synthesize runs
CSOne == InputVar(0)

CSEmpty == [inputs |-> <<1>>, aux |-> <<>>, calls |-> <<>>, constraints |-> <<>>]

\* cs.alloc_input(.., || value): a new public variable, index = inputs so far
CSAllocInput(c, v) ==
    [c EXCEPT !.inputs = Append(@, v), !.calls = Append(@, "alloc_input")]
\* the Variable it returns, read off the constraint system after the call
CSAllocInputVar(c) == InputVar(Len(c.inputs) - 1)

\* cs.alloc(.., || value): a new private variable
CSAlloc(c, v) ==
    [c EXCEPT !.aux = Append(@, v), !.calls = Append(@, "alloc")]
CSAllocVar(c) == AuxVar(Len(c.aux) - 1)

\* cs.enforce(.., a, b, c): records the constraint a * b = c
CSEnforce(c, la, lb, lc) ==
    [c EXCEPT !.constraints = Append(@, [a |-> la, b |-> lb, c |-> lc])]

\* lc + var  and  lc + (coeff, var)  on the zero linear combination
LcVar(v) == <<[coeff |-> 1, var |-> v]>>
LcTerm(k, v) == <<[coeff |-> k, var |-> v]>>

VarValue(c, v) == IF v.kind = "Input" THEN c.inputs[v.idx + 1] ELSE c.aux[v.idx + 1]

RECURSIVE LcEval(_, _)
LcEval(c, lc) ==
    IF lc = <<>> THEN 0
    ELSE FrAdd(FrMul(lc[1].coeff, VarValue(c, lc[1].var)), LcEval(c, Tail(lc)))

ConstraintHolds(c, k) == FrMul(LcEval(c, k.a), LcEval(c, k.b)) = LcEval(c, k.c)

\* ------------------------------------------------------------------------
\* DummyDemo::synthesize
\* ------------------------------------------------------------------------
IdleSynth ==
    /\ s_pc = "idle"
    /\ x_val = None
    /\ x = CSOne
    /\ pubs = 0
    /\ iter = 0
    /\ cs = CSEmpty
    /\ s_result = "none"

StartSynth ==
    /\ s_pc = "assert"
    /\ x_val = None
    /\ x = CSOne
    /\ pubs = 0
    /\ iter = 0
    /\ cs = CSEmpty
    /\ s_result = "none"

\* assert!(self.public >= 1)
AssertPublicNoCheck == TRUE
AssertPublic == public >= 1

SynAssert ==
    /\ s_pc = "assert"
    /\ IF AssertPublic
         THEN s_pc' = "first" /\ s_result' = s_result
         ELSE s_pc' = "aborted" /\ s_result' = "panic"
    /\ UNCHANGED <<x_val, x, pubs, iter, cs>>
    /\ UNCHANGED <<argVars, rng, pointVars, paramVars, decodeVars>>

\* let mut x_val = from_str("2"); let mut x = cs.alloc_input(..)?; let mut pubs = 1;
SynAllocFirst ==
    /\ s_pc = "first"
    /\ x_val' = FrFromStr2
    /\ IF IsSome(FrFromStr2)
         THEN /\ cs' = CSAllocInput(cs, Unwrap(FrFromStr2))
              /\ x' = CSAllocInputVar(cs')
              /\ pubs' = 1
              /\ s_pc' = "loop"
              /\ s_result' = s_result
         ELSE /\ s_pc' = "returned"
              /\ s_result' = "Err"
              /\ UNCHANGED <<cs, x, pubs>>
    /\ UNCHANGED iter
    /\ UNCHANGED <<argVars, rng, pointVars, paramVars, decodeVars>>

\* the variable x is replaced by x2 at the end of the loop body
NextX(old, x2) == x2

\* the shadow value x_val is replaced by x2_val at the end of the loop body
NextXValStale(old, x2v) == old
NextXVal(old, x2v) == x2v

\* `if pubs < self.public` of the loop body
TakePublicBranchOffByOne(p, pub) == p <= pub
TakePublicBranch(p, pub) == p < pub

\* one iteration of `for _ in 0..self.private + self.public - 1`
SynLoopIter ==
    /\ s_pc = "loop"
    /\ iter < private + public - 1
    /\ LET x2_val == MapSquare(x_val) IN
         IF IsSome(x2_val)
           THEN LET isPub == TakePublicBranch(pubs, public)
                    cs1 == IF isPub THEN CSAllocInput(cs, Unwrap(x2_val))
                                    ELSE CSAlloc(cs, Unwrap(x2_val))
                    x2 == IF isPub THEN CSAllocInputVar(cs1) ELSE CSAllocVar(cs1)
                IN /\ pubs' = IF isPub THEN pubs + 1 ELSE pubs
                   /\ cs' = CSEnforce(cs1, LcVar(x), LcVar(x), LcVar(x2))
                   /\ x' = NextX(x, x2)
                   /\ x_val' = NextXVal(x_val, x2_val)
                   /\ iter' = iter + 1
                   /\ UNCHANGED <<s_pc, s_result>>
           ELSE /\ s_pc' = "returned"
                /\ s_result' = "Err"
                /\ pubs' = IF TakePublicBranch(pubs, public) THEN pubs + 1 ELSE pubs
                /\ UNCHANGED <<cs, x, x_val, iter>>
    /\ UNCHANGED <<argVars, rng, pointVars, paramVars, decodeVars>>

\* the final cs.enforce(.., (x_val.unwrap(), ONE), ONE, x) and Ok(())
SynFinal ==
    /\ s_pc = "loop"
    /\ iter >= private + public - 1
    /\ IF IsSome(x_val)
         THEN /\ cs' = CSEnforce(cs, LcTerm(Unwrap(x_val), CSOne), LcVar(CSOne), LcVar(x))
              /\ s_pc' = "returned"
              /\ s_result' = "Ok"
         ELSE /\ s_pc' = "aborted"
              /\ s_result' = "panic"
              /\ cs' = cs
    /\ UNCHANGED <<x_val, x, pubs, iter>>
    /\ UNCHANGED <<argVars, rng, pointVars, paramVars, decodeVars>>

\* ------------------------------------------------------------------------
\* random_points
\* ------------------------------------------------------------------------
DISTINT_POINTS == 100

Groups == {"G1", "G2"}

\* C::random(rng): the point the random stream holds at position r
Random(C, r) == [group |-> C, id |-> r, repr |-> "Projective"]
\* .into_affine()
IntoAffine(pt) == [pt EXCEPT !.repr = "Affine"]

\* the range (0..DISTINT_POINTS) the draws are mapped over
DrawRangeUpToCount(cnt) == IF cnt < DISTINT_POINTS THEN cnt ELSE DISTINT_POINTS
DrawRange(cnt) == DISTINT_POINTS

IdlePoints ==
    /\ group = "G1"
    /\ count = 0
    /\ r_pc = "idle"
    /\ pool = <<>>
    /\ pos = 0
    /\ out = <<>>

StartPoints ==
    /\ group \in Groups
    /\ count \in 0..MaxCount
    /\ r_pc = "draw"
    /\ pool = <<>>
    /\ pos = 0
    /\ out = <<>>

\* (0..DISTINT_POINTS).map(|_| C::random(rng).into_affine()).collect::<Vec<_>>()
\* one element of the range per step; the collected Vec is then turned into
\* the cycling iterator
RpDraw ==
    /\ r_pc = "draw"
    /\ Len(pool) < DrawRange(count)
    /\ pool' = Append(pool, IntoAffine(Random(group, rng)))
    /\ rng' = rng + 1
    /\ UNCHANGED <<group, count, r_pc, pos, out>>
    /\ UNCHANGED <<argVars, synthVars, paramVars, decodeVars>>

\* .into_iter().cycle(): the range is exhausted, the pool is complete
RpCycle ==
    /\ r_pc = "draw"
    /\ Len(pool) >= DrawRange(count)
    /\ r_pc' = "take"
    /\ pos' = 0
    /\ UNCHANGED <<group, count, pool, out, rng>>
    /\ UNCHANGED <<argVars, synthVars, paramVars, decodeVars>>

\* Cycle::next(): the next entry of the current pass, or, when the pass is
\* exhausted, the first entry of a fresh pass over the pool
CycleRestartAtSecond(ps, n) == 1
CycleRestart(ps, n) == 0
CycleFrom(ps, n) == IF ps < n THEN ps ELSE CycleRestart(ps, n)

\* .take(count).collect(): one element per step
RpTake ==
    /\ r_pc = "take"
    /\ Len(out) < count
    /\ LET from == CycleFrom(pos, Len(pool)) IN
         /\ out' = Append(out, pool[from + 1])
         /\ pos' = from + 1
    /\ UNCHANGED <<group, count, r_pc, pool, rng>>
    /\ UNCHANGED <<argVars, synthVars, paramVars, decodeVars>>

RpReturn ==
    /\ r_pc = "take"
    /\ Len(out) >= count
    /\ r_pc' = "returned"
    /\ UNCHANGED <<group, count, pool, pos, out, rng>>
    /\ UNCHANGED <<argVars, synthVars, paramVars, decodeVars>>

\* The whole call as a function of its arguments: the returned Vec and the
\* state the randomness source is left in.
RandomPoints(C, n, r) ==
    LET pl == [i \in 1..DISTINT_POINTS |-> IntoAffine(Random(C, r + i - 1))]
    IN  [points |-> [i \in 1..n |-> pl[((i - 1) % DISTINT_POINTS) + 1]],
         rng |-> r + DISTINT_POINTS]

\* ------------------------------------------------------------------------
\* dummy_vk and dummy_params
\* ------------------------------------------------------------------------
\* defaults of Opts.public and Opts.private
DefaultPublic == 1
DefaultPrivate == 1000000

RECURSIVE Pow2(_)
Pow2(k) == IF k = 0 THEN 1 ELSE 2 * Pow2(k - 1)

\* position of the leading one bit of n >= 1
RECURSIVE LeadingBit(_)
LeadingBit(n) == IF n <= 1 THEN 0 ELSE 1 + LeadingBit(n \div 2)

\* `n as f64` for 1 <= n < 2^53: the conversion is exact; the double is held
\* as its binary exponent and the part of n above 2^exp.
AsF64(n) == [exp |-> LeadingBit(n), frac |-> n - Pow2(LeadingBit(n))]

\* f64::log2 of a double in [2^exp, 2^(exp+1)): exp plus a fraction in [0, 1),
\* held as the integer part and whether the fraction is positive.  For the
\* integers below 2^31 a positive fraction is at least log2(1 + 2^-30), far
\* above the spacing of doubles near 31, so rounding never makes it zero.
F64Log2(f) == [int |-> f.exp, above |-> f.frac > 0]

\* f64::ceil followed by `as usize`
F64Floor(l) == l.int
F64Ceil(l) == IF l.above THEN l.int + 1 ELSE l.int

\* let hlen = (1 << (((count + public + 1) as f64).log2().ceil() as usize)) - 1;
Hlen(cnt, pub) == Pow2(F64Ceil(F64Log2(AsF64(cnt + pub + 1)))) - 1

\* The six singleton fields of the VerifyingKey literal, in evaluation order,
\* each with the group whose random() fills it.
VkPointFieldsBeta2InG1 == <<
    [field |-> "alpha_g1", group |-> "G1"],
    [field |-> "beta_g1",  group |-> "G1"],
    [field |-> "beta_g2",  group |-> "G1"],
    [field |-> "gamma_g2", group |-> "G2"],
    [field |-> "delta_g1", group |-> "G1"],
    [field |-> "delta_g2", group |-> "G2"] >>
VkPointFields == <<
    [field |-> "alpha_g1", group |-> "G1"],
    [field |-> "beta_g1",  group |-> "G1"],
    [field |-> "beta_g2",  group |-> "G2"],
    [field |-> "gamma_g2", group |-> "G2"],
    [field |-> "delta_g1", group |-> "G1"],
    [field |-> "delta_g2", group |-> "G2"] >>

\* ic: random_points::<E::G1, _>(public + 1, rng)
IcCount(pub) == pub + 1

\* The vector fields of the Parameters literal after vk, in evaluation order,
\* each with the group and the count handed to random_points.
VectorFieldsLFromCount(hl, priv, cnt) == <<
    [field |-> "h",    group |-> "G1", count |-> hl],
    [field |-> "l",    group |-> "G1", count |-> cnt],
    [field |-> "a",    group |-> "G1", count |-> cnt],
    [field |-> "b_g1", group |-> "G1", count |-> cnt],
    [field |-> "b_g2", group |-> "G2", count |-> cnt] >>
VectorFields(hl, priv, cnt) == <<
    [field |-> "h",    group |-> "G1", count |-> hl],
    [field |-> "l",    group |-> "G1", count |-> priv],
    [field |-> "a",    group |-> "G1", count |-> cnt],
    [field |-> "b_g1", group |-> "G1", count |-> cnt],
    [field |-> "b_g2", group |-> "G2", count |-> cnt] >>

\* a struct under construction: the fields evaluated so far
NoFields == [f \in {} |-> 0]
WithField(st, f, v) == [g \in (DOMAIN st) \cup {f} |-> IF g = f THEN v ELSE st[g]]

IdleParams ==
    /\ p_pc = "idle"
    /\ p_idx = 1
    /\ p_count = 0
    /\ hlen = 0
    /\ vk = NoFields
    /\ params = NoFields
    /\ p_calls = <<>>

StartParams ==
    /\ p_pc = "start"
    /\ p_idx = 1
    /\ p_count = 0
    /\ hlen = 0
    /\ vk = NoFields
    /\ params = NoFields
    /\ p_calls = <<>>

\* let count = public + private; let hlen = ...;
DpSizes ==
    /\ p_pc = "start"
    /\ p_count' = public + private
    /\ hlen' = Hlen(public + private, public)
    /\ p_pc' = "vk_points"
    /\ UNCHANGED <<p_idx, vk, params, p_calls, rng>>
    /\ UNCHANGED <<argVars, synthVars, pointVars, decodeVars>>

\* dummy_vk: one of  <field>: E::Gx::random(rng).into_affine()
DvkPoint ==
    /\ p_pc = "vk_points"
    /\ LET f == VkPointFields[p_idx] IN
         /\ vk' = WithField(vk, f.field, IntoAffine(Random(f.group, rng)))
         /\ rng' = rng + 1
         /\ p_calls' = Append(p_calls, [fn |-> "random", group |-> f.group,
                                         field |-> f.field])
    /\ IF p_idx < Len(VkPointFields)
         THEN p_idx' = p_idx + 1 /\ p_pc' = p_pc
         ELSE p_idx' = 1 /\ p_pc' = "vk_ic"
    /\ UNCHANGED <<p_count, hlen, params>>
    /\ UNCHANGED <<argVars, synthVars, pointVars, decodeVars>>

\* dummy_vk: ic: random_points::<E::G1, _>(public + 1, rng); the finished
\* key becomes the field vk of the Parameters literal
DvkIc ==
    /\ p_pc = "vk_ic"
    /\ LET r == RandomPoints("G1", IcCount(public), rng) IN
         /\ vk' = WithField(vk, "ic", r.points)
         /\ params' = WithField(params, "vk", vk')
         /\ rng' = r.rng
         /\ p_calls' = Append(p_calls, [fn |-> "random_points", group |-> "G1",
                                         count |-> IcCount(public), field |-> "ic"])
    /\ p_pc' = "vectors"
    /\ UNCHANGED <<p_idx, p_count, hlen>>
    /\ UNCHANGED <<argVars, synthVars, pointVars, decodeVars>>

\* dummy_params: one of  <field>: Arc::new(random_points::<E::Gx, _>(n, rng))
DpVector ==
    /\ p_pc = "vectors"
    /\ LET f == VectorFields(hlen, private, p_count)[p_idx]
           r == RandomPoints(f.group, f.count, rng)
       IN /\ params' = WithField(params, f.field, r.points)
          /\ rng' = r.rng
          /\ p_calls' = Append(p_calls, [fn |-> "random_points", group |-> f.group,
                                          count |-> f.count, field |-> f.field])
    /\ IF p_idx < Len(VectorFields(hlen, private, p_count))
         THEN p_idx' = p_idx + 1 /\ p_pc' = p_pc
         ELSE p_idx' = 1 /\ p_pc' = "returned"
    /\ UNCHANGED <<p_count, hlen, vk>>
    /\ UNCHANGED <<argVars, synthVars, pointVars, decodeVars>>

\* ------------------------------------------------------------------------
\* main: the decode run over data.bin
\* ------------------------------------------------------------------------
\* <G1Affine as CurveAffine>::Compressed::size() and the same for G2Affine
g1_byteblob_size == 48
g2_byteblob_size == 96
proof_byteblob_size == g1_byteblob_size + g2_byteblob_size + g1_byteblob_size
fp_byteblob_size == 48

\* The regions of the blob the library is asked to decode.
Regions == {"a", "b", "c", "fp"}

\* &buf[from..to] panics unless from <= to <= buf.len()
SliceUnchecked(len, from, to) == TRUE
SliceInBounds(len, from, to) == from <= to /\ to <= len

\* the byte range a slice covers
SliceRange(len, from, to) == <<from, to>>

\* groth16_proof_from_byteblob::<Bls12>(bytes): [G1][G2][G1], each region
\* checked by the curve library; any failure is returned as Err
ProofFromByteblob(blob, range) ==
    IF blob.valid["a"] /\ blob.valid["b"] /\ blob.valid["c"]
      THEN [ok |-> TRUE,
            val |-> [a |-> <<range[1], range[1] + g1_byteblob_size>>,
                     b |-> <<range[1] + g1_byteblob_size,
                             range[1] + g1_byteblob_size + g2_byteblob_size>>,
                     c |-> <<range[1] + g1_byteblob_size + g2_byteblob_size, range[2]>>]]
      ELSE [ok |-> FALSE, val |-> "DecodeError"]

\* fp_process::<Bls12>(bytes): one field element, checked by the field library
FpProcess(blob, range) ==
    IF blob.valid["fp"]
      THEN [ok |-> TRUE, val |-> [fp |-> range]]
      ELSE [ok |-> FALSE, val |-> "DecodeError"]

\* Result::unwrap(): the value of Ok, a panic on Err
UnwrapPanics(res) == ~res.ok

IdleDecode ==
    /\ m_pc = "idle"
    /\ file = [exists |-> FALSE, len |-> 0, valid |-> [r \in Regions |-> FALSE]]
    /\ byteblob = None
    /\ de_prf = None
    /\ fp_byteblob = None
    /\ c21 = None
    /\ m_outcome = "running"
    /\ m_stdout = <<>>

StartDecode ==
    /\ m_pc = "read"
    /\ file \in [exists : BOOLEAN, len : 0..MaxFileLen, valid : [Regions -> BOOLEAN]]
    /\ byteblob = None
    /\ de_prf = None
    /\ fp_byteblob = None
    /\ c21 = None
    /\ m_outcome = "running"
    /\ m_stdout = <<>>

\* let mut byteblob = std::fs::read("data.bin").unwrap();
MainRead ==
    /\ m_pc = "read"
    /\ m_outcome = "running"
    /\ IF file.exists
         THEN /\ byteblob' = Some([len |-> file.len, valid |-> file.valid])
              /\ m_pc' = "proof"
              /\ m_outcome' = m_outcome
         ELSE /\ m_outcome' = "panic"
              /\ UNCHANGED <<byteblob, m_pc>>
    /\ UNCHANGED <<file, de_prf, fp_byteblob, c21, m_stdout>>
    /\ UNCHANGED <<argVars, synthVars, rng, pointVars, paramVars>>

\* let de_prf = groth16_proof_from_byteblob::<Bls12>(&byteblob[..proof_byteblob_size]).unwrap();
\* and the four println! that follow it
MainProof ==
    /\ m_pc = "proof"
    /\ m_outcome = "running"
    /\ IF ~SliceInBounds(Unwrap(byteblob).len, 0, proof_byteblob_size)
         THEN /\ m_outcome' = "panic"
              /\ UNCHANGED <<de_prf, m_pc, m_stdout>>
         ELSE LET res == ProofFromByteblob(Unwrap(byteblob),
                             SliceRange(Unwrap(byteblob).len, 0, proof_byteblob_size))
              IN IF UnwrapPanics(res)
                   THEN /\ m_outcome' = "panic"
                        /\ UNCHANGED <<de_prf, m_pc, m_stdout>>
                   ELSE /\ de_prf' = Some(res.val)
                        /\ m_stdout' = m_stdout \o <<"a", "b", "c", "proof size">>
                        /\ m_pc' = "fp_copy"
                        /\ m_outcome' = m_outcome
    /\ UNCHANGED <<file, byteblob, fp_byteblob, c21>>
    /\ UNCHANGED <<argVars, synthVars, rng, pointVars, paramVars>>

\* let fp_byteblob : Vec<u8> = byteblob[proof_byteblob_size..proof_byteblob_size+fp_byteblob_size].to_vec();
\* and the println! that follows it
MainFpCopy ==
    /\ m_pc = "fp_copy"
    /\ m_outcome = "running"
    /\ IF ~SliceInBounds(Unwrap(byteblob).len, proof_byteblob_size,
                         proof_byteblob_size + fp_byteblob_size)
         THEN /\ m_outcome' = "panic"
              /\ UNCHANGED <<fp_byteblob, m_pc, m_stdout>>
         ELSE /\ fp_byteblob' = Some(SliceRange(Unwrap(byteblob).len, proof_byteblob_size,
                                                proof_byteblob_size + fp_byteblob_size))
              /\ m_stdout' = Append(m_stdout, "c2")
              /\ m_pc' = "fp"
              /\ m_outcome' = m_outcome
    /\ UNCHANGED <<file, byteblob, de_prf, c21>>
    /\ UNCHANGED <<argVars, synthVars, rng, pointVars, paramVars>>

\* let c21 = fp_process::<Bls12>(&byteblob[proof_byteblob_size..proof_byteblob_size+fp_byteblob_size]).unwrap();
\* and the println! that ends main
MainFp ==
    /\ m_pc = "fp"
    /\ m_outcome = "running"
    /\ IF ~SliceInBounds(Unwrap(byteblob).len, proof_byteblob_size,
                         proof_byteblob_size + fp_byteblob_size)
         THEN /\ m_outcome' = "panic"
              /\ UNCHANGED <<c21, m_pc, m_stdout>>
         ELSE LET res == FpProcess(Unwrap(byteblob),
                             SliceRange(Unwrap(byteblob).len, proof_byteblob_size,
                                        proof_byteblob_size + fp_byteblob_size))
              IN IF UnwrapPanics(res)
                   THEN /\ m_outcome' = "panic"
                        /\ UNCHANGED <<c21, m_pc, m_stdout>>
                   ELSE /\ c21' = Some(res.val)
                        /\ m_stdout' = Append(m_stdout, "c21")
                        /\ m_pc' = "end"
                        /\ m_outcome' = "exit"
    /\ UNCHANGED <<file, byteblob, de_prf, fp_byteblob>>
    /\ UNCHANGED <<argVars, synthVars, rng, pointVars, paramVars>>

\* ------------------------------------------------------------------------
\* Specifications
\* ------------------------------------------------------------------------
IdleArgs == public = 0 /\ private = 0
IdleRng == rng = 0

InitSynth ==
    /\ public \in 0..MaxPublic
    /\ private \in 0..MaxPrivate
    /\ StartSynth
    /\ IdleRng /\ IdlePoints /\ IdleParams /\ IdleDecode

NextSynth == SynAssert \/ SynAllocFirst \/ SynLoopIter \/ SynFinal

SpecSynth == InitSynth /\ [][NextSynth]_vars

InitPoints ==
    /\ rng \in 0..MaxSeed
    /\ StartPoints
    /\ IdleArgs /\ IdleSynth /\ IdleParams /\ IdleDecode

NextPoints == RpDraw \/ RpCycle \/ RpTake \/ RpReturn

SpecPoints == InitPoints /\ [][NextPoints]_vars

InitParams ==
    /\ \/ public \in 0..MaxPublic /\ private \in 0..MaxPrivate /\ rng \in 0..MaxSeed
       \/ public = DefaultPublic /\ private = DefaultPrivate /\ rng = 0
    /\ StartParams
    /\ IdleSynth /\ IdlePoints /\ IdleDecode

NextParams == DpSizes \/ DvkPoint \/ DvkIc \/ DpVector

SpecParams == InitParams /\ [][NextParams]_vars

InitDecode ==
    /\ StartDecode
    /\ IdleArgs /\ IdleRng /\ IdleSynth /\ IdlePoints /\ IdleParams

NextDecode == MainRead \/ MainProof \/ MainFpCopy \/ MainFp

SpecDecode == InitDecode /\ [][NextDecode]_vars

\* ------------------------------------------------------------------------
\* Properties
\* ------------------------------------------------------------------------

\* C1: for all public >= 0 and private >= 0 the Parameters returned by
\* dummy_params have l of length private, a, b_g1 and b_g2 of length
\* public + private each, and vk.ic of length public + 1.
C1_ParameterLengths ==
    p_pc = "returned" =>
        /\ Len(params.l) = private
        /\ Len(params.a) = public + private
        /\ Len(params.b_g1) = public + private
        /\ Len(params.b_g2) = public + private
        /\ Len(params.vk.ic) = public + 1

C1_Witness ==
    /\ p_pc = "returned"
    /\ public = 2 /\ private = 3
    /\ Len(params.l) = 3 /\ Len(params.a) = 5 /\ Len(params.vk.ic) = 3

\* the smallest k >= 0 with 2^k >= n
SmallestPowerExponent(n) ==
    CHOOSE k \in 0..30 : 2^k >= n /\ \A j \in 0..(k - 1) : 2^j < n

\* C2: the length of Parameters.h is 2^k - 1 for the smallest k >= 0 with
\* 2^k >= degree_bound, degree_bound = (public + private) + public + 1;
\* (1, 1) gives 3, (1, 1000000) gives 1048575, and a degree_bound that is a
\* power of two gives degree_bound - 1.
C2_HLength ==
    p_pc = "returned" =>
        LET degree_bound == (public + private) + public + 1 IN
        /\ Len(params.h) = 2^SmallestPowerExponent(degree_bound) - 1
        /\ (public = 1 /\ private = 1) => Len(params.h) = 3
        /\ (public = 1 /\ private = 1000000) => Len(params.h) = 1048575
        /\ (\E k \in 0..30 : degree_bound = 2^k) => Len(params.h) = degree_bound - 1

C2_Witness ==
    /\ p_pc = "returned"
    /\ public = 1 /\ private = 1000000
    /\ Len(params.h) = 1048575

\* C3: random_points(count, rng) returns exactly count points, the i-th
\* (0-based) being pool[i mod 100] where pool is the list of the 100 points
\* drawn at the start of the call; for count <= 100 the result is the first
\* count pool entries in order, for count = 0 the empty sequence.
C3_CyclicResult ==
    r_pc = "returned" =>
        /\ Len(pool) = 100
        /\ \A j \in 1..100 : pool[j] = IntoAffine(Random(group, rng - 100 + (j - 1)))
        /\ Len(out) = count
        /\ \A i \in 0..(count - 1) : out[i + 1] = pool[(i % 100) + 1]
        /\ count <= 100 => out = SubSeq(pool, 1, count)
        /\ count = 0 => out = <<>>

C3_Witness ==
    /\ r_pc = "returned"
    /\ count > 200
    /\ Len(out) = count
    /\ out[201] = pool[1]

\* C4: when data.bin is shorter than proof_size + 48 bytes the run of main
\* ends in a panic: it never exits normally, never copies or decodes a field
\* element, and can always take its next step until it has panicked; a
\* buffer shorter than proof_size does not get as far as a decoded proof.
C4_ShortBufferIsFatal ==
    (file.exists /\ file.len < proof_byteblob_size + 48) =>
        /\ m_outcome # "exit"
        /\ c21 = None
        /\ fp_byteblob = None
        /\ file.len < proof_byteblob_size => de_prf = None
        /\ m_outcome = "running" => ENABLED NextDecode

C4_Witness ==
    /\ file.exists
    /\ file.len >= proof_byteblob_size
    /\ file.len < proof_byteblob_size + 48
    /\ de_prf # None
    /\ m_outcome = "panic"

\* C5: when the buffer is long enough but a region of it fails the
\* library's validity check, the run does not end in a panic.
C5_DecodeErrorIsNotAPanic ==
    (/\ file.exists
     /\ file.len >= proof_byteblob_size + fp_byteblob_size
     /\ \E r \in Regions : ~file.valid[r])
        => m_outcome # "panic"

\* the values allocated by synthesize, in allocation order
AllocatedValues == Tail(cs.inputs) \o cs.aux

\* C6: for public >= 1, synthesize allocates public + private variables in
\* total; the first public allocations (the constant 2, then the first
\* public - 1 squares) use alloc_input and the remaining private ones use
\* alloc; no alloc_input call follows an alloc call.
C6_AllocationOrder ==
    public >= 1 =>
        /\ \A i, j \in 1..Len(cs.calls) :
               (i < j /\ cs.calls[i] = "alloc") => cs.calls[j] = "alloc"
        /\ s_pc = "returned" =>
             /\ s_result = "Ok"
             /\ Len(cs.calls) = public + private
             /\ \A i \in 1..public : cs.calls[i] = "alloc_input"
             /\ \A i \in (public + 1)..(public + private) : cs.calls[i] = "alloc"
             /\ Len(cs.inputs) = public + 1
             /\ Len(cs.aux) = private
             /\ AllocatedValues[1] = 2
             /\ \A i \in 1..(public + private - 1) :
                    AllocatedValues[i + 1] = (AllocatedValues[i] * AllocatedValues[i]) % FrModulus

C6_Witness ==
    /\ s_pc = "returned"
    /\ public = 2 /\ private = 3
    /\ cs.calls = <<"alloc_input", "alloc_input", "alloc", "alloc", "alloc">>

\* C7: with public = 0 synthesize panics on its assertion before any
\* variable is allocated or any constraint is enforced; it never returns a
\* Result (neither Ok nor Err).
C7_ZeroPublicPanics ==
    public = 0 =>
        /\ cs.calls = <<>>
        /\ cs.constraints = <<>>
        /\ cs = CSEmpty
        /\ s_result \in {"none", "panic"}
        /\ s_pc \in {"assert", "aborted"}
        /\ s_pc = "aborted" <=> s_result = "panic"
        /\ s_pc = "assert" => ENABLED SynAssert

C7_Witness ==
    /\ public = 0 /\ private = 0
    /\ s_pc = "aborted"
    /\ s_result = "panic"
    /\ cs.calls = <<>>

\* C8: for public >= 1 every constraint synthesize has enforced is satisfied
\* by the values it assigned; on return there are public + private - 1
\* squaring constraints x * x = x2 followed by the final constraint
\* (x_val * ONE) * ONE = x on the last allocated variable; with public = 1
\* and private = 0 there is no private variable and only the final
\* constraint, which holds.
C8_ConstraintsSatisfied ==
    public >= 1 =>
        /\ \A k \in 1..Len(cs.constraints) : ConstraintHolds(cs, cs.constraints[k])
        /\ s_pc = "returned" =>
             LET n == public + private
                 last == IF private = 0 THEN InputVar(public) ELSE AuxVar(private - 1)
             IN /\ Len(cs.constraints) = n
                /\ \A k \in 1..(n - 1) :
                       /\ cs.constraints[k].a = cs.constraints[k].b
                       /\ Len(cs.constraints[k].a) = 1
                       /\ Len(cs.constraints[k].c) = 1
                       /\ cs.constraints[k].a[1].coeff = 1
                       /\ cs.constraints[k].c[1].coeff = 1
                       /\ VarValue(cs, cs.constraints[k].c[1].var)
                            = (VarValue(cs, cs.constraints[k].a[1].var)
                               * VarValue(cs, cs.constraints[k].a[1].var)) % FrModulus
                /\ cs.constraints[n].a = <<[coeff |-> VarValue(cs, last), var |-> CSOne]>>
                /\ cs.constraints[n].b = <<[coeff |-> 1, var |-> CSOne]>>
                /\ cs.constraints[n].c = <<[coeff |-> 1, var |-> last]>>
                /\ (public = 1 /\ private = 0) =>
                       /\ cs.aux = <<>>
                       /\ cs.inputs = <<1, 2>>

C8_Witness ==
    /\ s_pc = "returned"
    /\ public = 2 /\ private = 2
    /\ Len(cs.constraints) = 4
    /\ cs.aux = <<16, 256 % FrModulus>>

\* the calls of dummy_params that filled field f through function fn
CallsFor(fn, f) == {i \in 1..Len(p_calls) : p_calls[i].fn = fn /\ p_calls[i].field = f}

VkPointNames == {"alpha_g1", "beta_g1", "beta_g2", "gamma_g2", "delta_g1", "delta_g2"}
VectorNames == {"ic", "h", "l", "a", "b_g1", "b_g2"}

\* C9: each of the verifying key's six singleton points and each of the
\* vectors ic, h, l, a, b_g1, b_g2 is filled by exactly one call to
\* random_points.
C9_AllFilledByRandomPoints ==
    p_pc = "returned" =>
        \A f \in VkPointNames \cup VectorNames :
            Cardinality(CallsFor("random_points", f)) = 1

\* the group and the count each vector is to be generated with
ExpectedVector(f) ==
    CASE f = "ic"   -> [group |-> "G1", count |-> public + 1]
      [] f = "h"    -> [group |-> "G1",
                        count |-> 2^SmallestPowerExponent(public + private + public + 1) - 1]
      [] f = "l"    -> [group |-> "G1", count |-> private]
      [] f = "a"    -> [group |-> "G1", count |-> public + private]
      [] f = "b_g1" -> [group |-> "G1", count |-> public + private]
      [] f = "b_g2" -> [group |-> "G2", count |-> public + private]

ExpectedPointGroup(f) == IF f \in {"alpha_g1", "beta_g1", "delta_g1"} THEN "G1" ELSE "G2"

VectorValue(f) == IF f = "ic" THEN params.vk.ic ELSE params[f]

\* C9 (amended): each of the vectors ic, h, l, a, b_g1, b_g2 is filled by
\* exactly one call to random_points with its group and count (the vector
\* has that length and its leading 100 elements are points of that group);
\* each of the six singleton points is filled by exactly one direct random draw of its
\* group and by no call to random_points; the twelve fills consume
\* 6 + 6 * 100 draws of the randomness source.
C9_VectorsByRandomPoints ==
    p_pc = "returned" =>
        /\ \A f \in VectorNames :
              /\ Cardinality(CallsFor("random_points", f)) = 1
              /\ CallsFor("random", f) = {}
              /\ \A i \in CallsFor("random_points", f) :
                    /\ p_calls[i].group = ExpectedVector(f).group
                    /\ p_calls[i].count = ExpectedVector(f).count
              /\ Len(VectorValue(f)) = ExpectedVector(f).count
              /\ \A i \in 1..Len(VectorValue(f)) :
                    i <= 100 => VectorValue(f)[i].group = ExpectedVector(f).group
        /\ \A f \in VkPointNames :
              /\ CallsFor("random_points", f) = {}
              /\ Cardinality(CallsFor("random", f)) = 1
              /\ \A i \in CallsFor("random", f) : p_calls[i].group = ExpectedPointGroup(f)
              /\ params.vk[f].group = ExpectedPointGroup(f)
              /\ params.vk[f].repr = "Affine"
        /\ Len(p_calls) = 12
        /\ rng = params.vk.alpha_g1.id + 6 + 6 * 100

C9_Witness ==
    /\ p_pc = "returned"
    /\ public = 1 /\ private = 2
    /\ Len(p_calls) = 12
    /\ p_calls[12] = [fn |-> "random_points", group |-> "G2", count |-> 3, field |-> "b_g2"]

\* C10: every call of random_points draws exactly 100 points from rng,
\* whatever count is, and all of them before the first element of the result
\* is taken: while drawing the result is empty, and from the first take on
\* the pool holds 100 points and rng has advanced by exactly 100.
C10_HundredDraws ==
    /\ r_pc = "draw" =>
          /\ out = <<>>
          /\ Len(pool) <= 100
          /\ pool # <<>> => rng - pool[1].id = Len(pool)
    /\ r_pc \in {"take", "returned"} =>
          /\ Len(pool) = 100
          /\ rng - pool[1].id = 100
          /\ \A j \in 1..100 : pool[j].id = pool[1].id + (j - 1)

C10_Witness ==
    /\ r_pc = "returned"
    /\ count = 0
    /\ out = <<>>
    /\ Len(pool) = 100
    /\ rng - pool[1].id = 100

====
